---- MODULE Spec2Model ----
(***************************************************************************)
(* Model of the retrieval-augmented chat backend (src/app.py) and of the   *)
(* PDF ingestion script (src/backend.py).                                  *)
(*                                                                         *)
(* Text is a sequence of characters, so that str.split(), str.lower(),     *)
(* "\n".join(...) and the f-string renderings are computed as the code     *)
(* computes them.  A character is a one-character string; a character that *)
(* a TLA+ string cannot hold is the string "U+XXXX" of its code point.     *)
(* The clients and the external services (embedding model, search index,   *)
(* chat model, document store) are the environment: what they send or      *)
(* reply is chosen by Init or by \E in the action that receives it, and    *)
(* every call of a service may fail by raising.                            *)
(***************************************************************************)
EXTENDS Integers, Sequences, FiniteSets, TLC

VARIABLES
    pool,            \* the HTTP layer's workers that serve requests concurrently
    bodies,          \* the JSON objects the clients send to POST /ask
    index_results,   \* what search_client.search yields, in the index's order
    llm_text,        \* what the chat completion returns as message.content
    container,       \* the Cosmos container: a set of documents, unique by id
    clock,           \* datetime.utcnow(), as a logical clock
    budget,          \* number of HTTP requests still to be received
    pc,              \* per worker: position inside ask()
    req,             \* per worker: user_id, thread_id, user_input of ask()
    search_results,  \* per worker: ask()'s search_results
    prompt,          \* per worker: get_llm_response()'s messages
    conv_history,    \* per worker: get_llm_response()'s conversation_history
    item,            \* per worker: save_conversation()'s item, as it is upserted
    resp,            \* per worker: the HTTP response of the last /ask
    read_outcome,    \* per worker: how container.read_item ended
    failed_at,       \* per worker: the upstream step that raised, or "none"
    completed,       \* per worker: the completion call has returned
    wrote,           \* per worker: this request has written the container
    hist_resp,       \* the last response of a history endpoint
    pdf,             \* ingestion: the PDF, a sequence of pages of text blocks
    ipc,             \* ingestion: position inside process_pdf()
    index_exists,    \* ingestion: the search index exists
    content_by_page, \* ingestion: process_pdf()'s content_by_page, in dict order
    cursor,          \* ingestion: position of the for loop over content_by_page
    index_docs,      \* ingestion: the documents held by the search index
    printed,         \* ingestion: the lines printed so far
    attempts,        \* ingestion: the pages whose upload was attempted, in order
    abort_cause      \* ingestion: the call whose exception ended the script

askVars == <<pool, bodies, index_results, llm_text, container, clock, budget, pc, req,
             search_results, prompt, conv_history, item, resp, read_outcome,
             failed_at, completed, wrote, hist_resp>>
ingestVars == <<pdf, ipc, index_exists, content_by_page, cursor, index_docs,
                printed, attempts, abort_cause>>
vars == <<askVars, ingestVars>>

----------------------------------------------------------------------------
(* Bounds of the model and constants of the program *)

MaxRequests == 2     \* HTTP requests per behaviour
MaxSoloRequests == 1 \* HTTP requests per behaviour of the one-worker service
MaxTurns == 6        \* flat turn records already in the container
MaxPages == 3        \* pages of the ingested PDF
Threshold == 160     \* word_count > 160
MemoryTurns == 5     \* conversation_history[-5:]
KNearest == 3        \* k_nearest_neighbors=3

None == "None"        \* None where the value is an id
NoneText == <<None>>  \* None where the value is text
Workers == {"w1", "w2"}
Users == {"u1"}
Threads == {"t1"}

----------------------------------------------------------------------------
(* Text helpers *)

Max(a, b) == IF a >= b THEN a ELSE b
Min(a, b) == IF a <= b THEN a ELSE b

Upper == <<"A","B","C","D","E","F","G","H","I","J","K","L","M",
           "N","O","P","Q","R","S","T","U","V","W","X","Y","Z">>
Lower == <<"a","b","c","d","e","f","g","h","i","j","k","l","m",
           "n","o","p","q","r","s","t","u","v","w","x","y","z">>

\* str.lower(), one character; the texts of the model hold no letter beyond ASCII
LowerChar(c) ==
    IF \E i \in 1..Len(Upper) : Upper[i] = c
    THEN Lower[CHOOSE i \in 1..Len(Upper) : Upper[i] = c]
    ELSE c

\* str.lower()
ToLower(s) == [i \in 1..Len(s) |-> LowerChar(s[i])]

Digit == <<"0","1","2","3","4","5","6","7","8","9">>

\* str(n) of a natural number
RECURSIVE Decimal(_)
Decimal(n) == IF n < 10 THEN <<Digit[n + 1]>>
              ELSE Decimal(n \div 10) \o <<Digit[(n % 10) + 1]>>

\* "\n".join(lines)
RECURSIVE JoinLines(_)
JoinLines(lines) ==
    IF Len(lines) = 0 THEN <<>>
    ELSE IF Len(lines) = 1 THEN lines[1]
    ELSE lines[1] \o <<"\n">> \o JoinLines(Tail(lines))

\* the characters str.split() treats as separators: those of str.isspace()
Whitespace ==
    {" ", "\n", "\t", "\r", "\f", "U+000B", "U+001C", "U+001D", "U+001E", "U+001F",
     "U+0085", "U+00A0", "U+1680", "U+2000", "U+2001", "U+2002", "U+2003",
     "U+2004", "U+2005", "U+2006", "U+2007", "U+2008", "U+2009", "U+200A",
     "U+2028", "U+2029", "U+202F", "U+205F", "U+3000"}

\* len(response.split()): the number of maximal runs of non-whitespace
WordCount(s) ==
    Cardinality({i \in 1..Len(s) :
        s[i] \notin Whitespace /\ (i = 1 \/ s[i - 1] \in Whitespace)})

----------------------------------------------------------------------------
(* The conversation store, as the code uses it *)

HasField(d, f) == f \in DOMAIN d

\* ORDER BY c.timestamp DESC
RECURSIVE OrderByTimestampDesc(_)
OrderByTimestampDesc(S) ==
    IF S = {} THEN <<>>
    ELSE LET m == CHOOSE d \in S : \A e \in S : e.timestamp <= d.timestamp
         IN  <<m>> \o OrderByTimestampDesc(S \ {m})

\* SELECT * FROM c WHERE c.user_id=@user_id AND c.thread_id=@thread_id
\* ORDER BY c.timestamp DESC: a document without the compared field never matches
get_conversation_history(c, user_id, thread_id) ==
    OrderByTimestampDesc({d \in c :
        /\ HasField(d, "user_id") /\ d.user_id = user_id
        /\ HasField(d, "thread_id") /\ d.thread_id = thread_id
        /\ HasField(d, "timestamp")})

\* item.get(field)
GetOrNone(d, f) == IF HasField(d, f) THEN d[f] ELSE NoneText

\* the body of POST /getchathistory
get_history(c, user_id) ==
    LET items == OrderByTimestampDesc({d \in c :
                     /\ HasField(d, "user_id") /\ d.user_id = user_id
                     /\ HasField(d, "timestamp")})
    IN  [i \in 1..Len(items) |->
            [req |-> GetOrNone(items[i], "user_message"),
             res |-> GetOrNone(items[i], "bot_response")]]

\* container.read_item(item=user_id, partition_key=user_id) finds a document
\* (the container is partitioned by /id, as the call assumes)
ItemExists(c, id) == \E d \in c : d.id = id
ReadItem(c, id) == CHOOSE d \in c : d.id = id

\* the item of the except branch of save_conversation
EmptyItem(user_id) == [id |-> user_id, history |-> <<>>]

\* save_conversation between read_item and upsert_item; thread_id None is a
\* key of its own, beside the keys read from the stored JSON
ModifyItem(it, thread_id, user_message, bot_response, now) ==
    LET h0 == it.history
        h1 == IF thread_id \notin DOMAIN h0
              THEN [t \in (DOMAIN h0) \cup {thread_id} |->
                       IF t = thread_id
                       THEN [heading |-> user_message, chats |-> <<>>]
                       ELSE h0[t]]
              ELSE h0
        h2 == [h1 EXCEPT ![thread_id].chats =
                  Append(@, [req |-> user_message, res |-> bot_response])]
    IN  [id |-> it.id, history |-> h2, timestamp |-> now]

\* json.dumps of a dict key: None becomes "null"
JsonKey(k) == IF k = None THEN "null" ELSE k

\* the history map as the store keeps it: the entry of key None is written
\* last, as "null", and replaces an entry read back under "null"
JsonHistory(h) ==
    [k \in {JsonKey(t) : t \in DOMAIN h} |->
        IF k = "null" /\ None \in DOMAIN h THEN h[None] ELSE h[k]]

\* container.upsert_item(item) raises: the call generates no id, and the store
\* takes no item whose id is null
UpsertRejects(doc) == doc.id = None

\* container.upsert_item(item): replaces the document of the same id
UpsertItem(c, doc) ==
    IF UpsertRejects(doc) THEN c
    ELSE LET stored == [doc EXCEPT !.history = JsonHistory(@)]
         IN  {d \in c : d.id # stored.id} \cup {stored}

----------------------------------------------------------------------------
(* Prompt assembly *)

SystemPrompt == <<"You are the most intelligent Vintage Motorcycle Repair Assistant ...">>

\* str(x) inside an f-string: None is rendered "None"
Str(x) == IF x = NoneText THEN <<"N","o","n","e">> ELSE x

\* f"User: {item['user_message']}\nBot: {item['bot_response']}"
FormatTurn(d) ==
    <<"U","s","e","r",":"," ">> \o Str(d.user_message)
        \o <<"\n","B","o","t",":"," ">> \o Str(d.bot_response)

\* conversation_history[-5:]
LastTurns(h) == SubSeq(h, Max(1, Len(h) - MemoryTurns + 1), Len(h))

format_memory(conversation_history) ==
    LET used == LastTurns(conversation_history)
    IN  JoinLines([i \in 1..Len(used) |-> FormatTurn(used[i])])

\* the messages get_llm_response sends to the chat model
BuildMessages(user_input, search_content, conversation_history) ==
    LET memory == format_memory(conversation_history)
    IN  <<[role |-> "system", content |-> SystemPrompt]>>
        \o (IF memory # <<>> THEN <<[role |-> "user", content |-> memory]>> ELSE <<>>)
        \o <<[role |-> "user",
              content |-> Str(user_input)
                  \o <<"\n","\n","S","e","a","r","c","h"," ",
                       "r","e","s","u","l","t","s",":","\n">>
                  \o search_content]>>

----------------------------------------------------------------------------
(* Vector search *)

\* f"[doc{idx}]"
DocRef(idx) == <<"[","d","o","c">> \o Decimal(idx) \o <<"]">>

\* f"output_images/{str(page_number).lower()}.jpg"
ImagePath(page_number) ==
    <<"o","u","t","p","u","t","_","i","m","a","g","e","s","/">>
        \o ToLower(page_number) \o <<".","j","p","g">>

\* search_with_vector, had it re-sorted the hits by ascending score
search_with_vector_Resorted(results) ==
    LET n == Len(results)
        sorted == [i \in 1..n |-> results[n + 1 - i]]
    IN  [idx \in 1..n |->
            [doc_ref |-> DocRef(idx),
             page_number |-> sorted[idx].page_number,
             page_content |-> sorted[idx].page_content,
             score |-> sorted[idx].score,
             image_path |-> ImagePath(sorted[idx].page_number)]]

\* the loop of search_with_vector over enumerate(results, start=1)
search_with_vector(results) ==
    [idx \in 1..Len(results) |->
        [doc_ref |-> DocRef(idx),
         page_number |-> results[idx].page_number,
         page_content |-> results[idx].page_content,
         score |-> results[idx].score,
         image_path |-> ImagePath(results[idx].page_number)]]

\* f"{res['doc_ref']} page {res['page_number']}: {res['page_content']}"
FormatHit(res) ==
    res.doc_ref \o <<" ","p","a","g","e"," ">> \o res.page_number
        \o <<":"," ">> \o res.page_content

format_search_content(results) ==
    JoinLines([i \in 1..Len(results) |-> FormatHit(results[i])])

\* the images of the /ask response, had the test been word_count >= 160
Images_AtLeast(response, results) ==
    IF WordCount(response) >= Threshold
    THEN [i \in 1..Len(results) |-> results[i].image_path]
    ELSE <<>>

\* the images of the /ask response
Images(response, results) ==
    IF WordCount(response) > Threshold
    THEN [i \in 1..Len(results) |-> results[i].image_path]
    ELSE <<>>

----------------------------------------------------------------------------
(* The environment: indexed pages, replies of the chat model, request bodies *)

\* f"Page_{page_number + 1}" (backend.py), the page_number field of the index
PageLabel(n) == <<"P","a","g","e","_">> \o Decimal(n)

IndexedPages == {1, 2, 3}

\* one result of search_client.search: select=["page_number", "page_content"]
\* and '@search.score', here falling with the rank
RawHit(p, rank) ==
    [page_number |-> PageLabel(p),
     page_content |-> <<"m","a","n","u","a","l"," ">> \o Decimal(p),
     score |-> KNearest + 1 - rank]

\* at most k_nearest_neighbors results, no page twice, in any page order
HitSequences ==
    LET orders == UNION {[1..n -> IndexedPages] : n \in 0..KNearest}
    IN  {[i \in 1..Len(f) |-> RawHit(f[i], i)] :
            f \in {g \in orders : \A i, j \in 1..Len(g) : i # j => g[i] # g[j]}}

\* n words separated by single spaces
Words(n) == [i \in 1..Max(0, 2 * n - 1) |-> IF i % 2 = 1 THEN "w" ELSE " "]

\* n words, each on its own line and followed by a space
Lines(n) == [i \in 1..(3 * n) |->
                IF i % 3 = 1 THEN "\n" ELSE IF i % 3 = 2 THEN "w" ELSE " "]

\* n words separated by vertical tabs
TabbedWords(n) == [i \in 1..Max(0, 2 * n - 1) |-> IF i % 2 = 1 THEN "w" ELSE "U+000B"]

\* message.content of the completion: a text, the empty text, or None
LlmTexts == {Words(1), Words(Threshold), Words(Threshold + 1),
             Lines(Threshold), Lines(Threshold + 1), TabbedWords(Threshold + 1),
             <<>>, NoneText}

Questions == {<<"h","i">>, <<"w","h","y","?">>}

\* request.json of POST /ask; data.get(...) of a missing field is None
AskBodies == [user_id : Users \cup {None}, thread_id : Threads \cup {None},
              user_input : Questions \cup {NoneText}]

\* the bodies that carry user_id and question; thread_id may be missing
FullBodies == {b \in AskBodies : b.user_id # None /\ b.user_input # NoneText}

UpstreamSteps == {"embedding", "search", "history", "completion"}

NoReq == [user_id |-> None, thread_id |-> None, user_input |-> NoneText]
NoResp == [status |-> 0]

----------------------------------------------------------------------------
(* POST /ask *)

\* The handler blocks in six calls, one after another: the embedding call,
\* the search call, the history query, the completion call, read_item and
\* upsert_item.  Each action below is one of these calls returning or
\* raising, with the handler's own code up to the next call; other requests
\* run between any two of them.

\* an exception leaves ask() before save_conversation: Flask answers 500 and
\* the locals are dropped
UpstreamFail(r, step) ==
    /\ pc' = [pc EXCEPT ![r] = "done"]
    /\ failed_at' = [failed_at EXCEPT ![r] = step]
    /\ resp' = [resp EXCEPT ![r] = [status |-> 500]]
    /\ search_results' = [search_results EXCEPT ![r] = <<>>]
    /\ conv_history' = [conv_history EXCEPT ![r] = <<>>]
    /\ prompt' = [prompt EXCEPT ![r] = <<>>]
    /\ completed' = [completed EXCEPT ![r] = FALSE]
    /\ wrote' = [wrote EXCEPT ![r] = FALSE]
    /\ read_outcome' = [read_outcome EXCEPT ![r] = "none"]
    /\ UNCHANGED <<container, clock, item>>

\* the locals of a request that goes on
Fresh(r) ==
    /\ failed_at' = [failed_at EXCEPT ![r] = "none"]
    /\ resp' = [resp EXCEPT ![r] = NoResp]
    /\ search_results' = [search_results EXCEPT ![r] = <<>>]
    /\ conv_history' = [conv_history EXCEPT ![r] = <<>>]
    /\ prompt' = [prompt EXCEPT ![r] = <<>>]
    /\ completed' = [completed EXCEPT ![r] = FALSE]
    /\ wrote' = [wrote EXCEPT ![r] = FALSE]
    /\ read_outcome' = [read_outcome EXCEPT ![r] = "none"]
    /\ UNCHANGED <<container, clock, item>>

\* ask() from request.json to the return of get_embeddings_vector(query).  A
\* body that is no JSON object makes data.get raise; a missing field is None,
\* and whether the embedding endpoint takes a None input is the endpoint's choice
Embed(r) ==
    /\ r \in pool
    /\ pc[r] \in {"idle", "done"}
    /\ budget > 0
    /\ budget' = budget - 1
    /\ \/ /\ req' = [req EXCEPT ![r] = NoReq]
          /\ UpstreamFail(r, "request")
       \/ \E rq \in bodies, out \in {"ok", "raise"} :
             /\ req' = [req EXCEPT ![r] = rq]
             /\ IF out = "raise"
                THEN UpstreamFail(r, "embedding")
                ELSE /\ pc' = [pc EXCEPT ![r] = "embedded"]
                     /\ Fresh(r)
    /\ UNCHANGED <<pool, bodies, index_results, llm_text, hist_resp>>
    /\ UNCHANGED ingestVars

\* search_with_vector from search_client.search to its return
Search(r) ==
    /\ r \in pool
    /\ pc[r] = "embedded"
    /\ \E out \in {"ok", "raise"} :
          IF out = "raise"
          THEN UpstreamFail(r, "search")
          ELSE /\ pc' = [pc EXCEPT ![r] = "searched"]
               /\ search_results' = [search_results EXCEPT ![r] =
                                        search_with_vector(index_results)]
               /\ UNCHANGED <<container, clock, item, prompt, conv_history, resp,
                              read_outcome, failed_at, completed, wrote>>
    /\ UNCHANGED <<pool, bodies, index_results, llm_text, budget, req, hist_resp>>
    /\ UNCHANGED ingestVars

\* get_llm_response: the query of get_conversation_history
FetchHistory(r) ==
    /\ r \in pool
    /\ pc[r] = "searched"
    /\ \E out \in {"ok", "raise"} :
          IF out = "raise"
          THEN UpstreamFail(r, "history")
          ELSE /\ pc' = [pc EXCEPT ![r] = "fetched"]
               /\ conv_history' = [conv_history EXCEPT ![r] =
                      get_conversation_history(container, req[r].user_id,
                                               req[r].thread_id)]
               /\ UNCHANGED <<container, clock, item, prompt, search_results, resp,
                              read_outcome, failed_at, completed, wrote>>
    /\ UNCHANGED <<pool, bodies, index_results, llm_text, budget, req, hist_resp>>
    /\ UNCHANGED ingestVars

\* get_llm_response from format_memory to the return of the completion call
Complete(r) ==
    /\ r \in pool
    /\ pc[r] = "fetched"
    /\ \E out \in {"ok", "raise"} :
          IF out = "raise"
          THEN UpstreamFail(r, "completion")
          ELSE /\ pc' = [pc EXCEPT ![r] = "completed"]
               /\ prompt' = [prompt EXCEPT ![r] =
                      BuildMessages(req[r].user_input,
                                    format_search_content(search_results[r]),
                                    conv_history[r])]
               /\ completed' = [completed EXCEPT ![r] = TRUE]
               /\ UNCHANGED <<container, clock, item, conv_history, search_results,
                              resp, read_outcome, failed_at, wrote>>
    /\ UNCHANGED <<pool, bodies, index_results, llm_text, budget, req, hist_resp>>
    /\ UNCHANGED ingestVars

\* save_conversation from container.read_item to the call of upsert_item: the
\* except branch, the thread check, the append and the reading of the clock,
\* which may or may not have advanced when the next request reads it
SaveRead(r) ==
    /\ r \in pool
    /\ pc[r] = "completed"
    /\ \E out \in {"ok", "error"}, tick \in {0, 1} :
          LET user_id == req[r].user_id
              found == out = "ok" /\ user_id # None /\ ItemExists(container, user_id)
              read == IF found THEN ReadItem(container, user_id)
                      ELSE EmptyItem(user_id)
          IN  /\ item' = [item EXCEPT ![r] =
                     ModifyItem(read, req[r].thread_id, req[r].user_input,
                                llm_text, clock)]
              /\ read_outcome' = [read_outcome EXCEPT ![r] =
                     IF found THEN "found"
                     ELSE IF out = "ok" /\ user_id # None THEN "not_found"
                     ELSE "failed"]
              /\ clock' = clock + tick
    /\ pc' = [pc EXCEPT ![r] = "read"]
    /\ UNCHANGED <<pool, bodies, index_results, llm_text, container, budget, req,
                   search_results, prompt, conv_history, resp, failed_at,
                   completed, wrote, hist_resp>>
    /\ UNCHANGED ingestVars

\* container.upsert_item(item), then the rest of ask(): response.split()
\* raises when the completion returned None, after the item has been stored
SaveUpsert(r) ==
    /\ r \in pool
    /\ pc[r] = "read"
    /\ \E out \in {"ok", "error"} :
          IF out = "ok" /\ ~UpsertRejects(item[r])
          THEN /\ container' = UpsertItem(container, item[r])
               /\ wrote' = [wrote EXCEPT ![r] = TRUE]
               /\ resp' = [resp EXCEPT ![r] =
                      IF llm_text = NoneText
                      THEN [status |-> 500]
                      ELSE [status |-> 200, response |-> llm_text,
                            images |-> Images(llm_text, search_results[r])]]
          ELSE /\ resp' = [resp EXCEPT ![r] = [status |-> 500]]
               /\ UNCHANGED <<container, wrote>>
    /\ pc' = [pc EXCEPT ![r] = "done"]
    /\ item' = [item EXCEPT ![r] = EmptyItem(None)]
    /\ UNCHANGED <<pool, bodies, index_results, llm_text, clock, budget, req,
                   search_results, prompt, conv_history, read_outcome, failed_at,
                   completed, hist_resp>>
    /\ UNCHANGED ingestVars

----------------------------------------------------------------------------
(* The history endpoints *)

\* POST /getchathistory
GetChatHistory ==
    /\ \E user_id \in Users, out \in {"ok", "error"} :
          hist_resp' =
              IF out = "ok"
              THEN [endpoint |-> "getchathistory", user_id |-> user_id,
                    thread_id |-> None, status |-> 200,
                    body |-> get_history(container, user_id)]
              ELSE [endpoint |-> "getchathistory", user_id |-> user_id,
                    thread_id |-> None, status |-> 500, body |-> <<>>]
    /\ budget > 0
    /\ budget' = budget - 1
    /\ UNCHANGED <<pool, bodies, index_results, llm_text, container, clock, pc, req,
                   search_results, prompt, conv_history, item, resp, read_outcome,
                   failed_at, completed, wrote>>
    /\ UNCHANGED ingestVars

\* GET /history/<user_id>/<thread_id>
History ==
    /\ \E user_id \in Users, thread_id \in Threads, out \in {"ok", "error"} :
          hist_resp' =
              IF out = "ok"
              THEN [endpoint |-> "history", user_id |-> user_id,
                    thread_id |-> thread_id, status |-> 200,
                    body |-> get_conversation_history(container, user_id, thread_id)]
              ELSE [endpoint |-> "history", user_id |-> user_id,
                    thread_id |-> thread_id, status |-> 500, body |-> <<>>]
    /\ budget > 0
    /\ budget' = budget - 1
    /\ UNCHANGED <<pool, bodies, index_results, llm_text, container, clock, pc, req,
                   search_results, prompt, conv_history, item, resp, read_outcome,
                   failed_at, completed, wrote>>
    /\ UNCHANGED ingestVars

----------------------------------------------------------------------------
(* Specifications of the service *)

IngestIdle ==
    /\ pdf = <<>> /\ ipc = "off" /\ index_exists = FALSE /\ content_by_page = <<>>
    /\ cursor = 0 /\ index_docs = {} /\ printed = <<>> /\ attempts = <<>>
    /\ abort_cause = "none"

WorkersIdle ==
    /\ pc = [r \in Workers |-> "idle"]
    /\ req = [r \in Workers |-> NoReq]
    /\ search_results = [r \in Workers |-> <<>>]
    /\ prompt = [r \in Workers |-> <<>>]
    /\ conv_history = [r \in Workers |-> <<>>]
    /\ item = [r \in Workers |-> EmptyItem(None)]
    /\ resp = [r \in Workers |-> NoResp]
    /\ read_outcome = [r \in Workers |-> "none"]
    /\ failed_at = [r \in Workers |-> "none"]
    /\ completed = [r \in Workers |-> FALSE]
    /\ wrote = [r \in Workers |-> FALSE]
    /\ hist_resp = [endpoint |-> "none", user_id |-> None, thread_id |-> None,
                    status |-> 0, body |-> <<>>]

\* two workers serve requests concurrently over an empty container; the
\* clients send user_id and question
Init ==
    /\ pool = Workers
    /\ bodies = FullBodies
    /\ index_results = <<RawHit(2, 1), RawHit(1, 2)>>
    /\ llm_text = Words(2)
    /\ container = {}
    /\ clock = 1
    /\ budget = MaxRequests
    /\ WorkersIdle
    /\ IngestIdle

\* one worker, any reply of the index and of the chat model; the clients send
\* user_id and question
InitSolo ==
    /\ pool = {"w1"}
    /\ bodies = FullBodies
    /\ index_results \in HitSequences
    /\ llm_text \in LlmTexts
    /\ container = {}
    /\ clock = 1
    /\ budget = MaxSoloRequests
    /\ WorkersIdle
    /\ IngestIdle

\* a turn record of the flat shape, the shape the history queries select
FlatTurn(k, thread_id) ==
    [id |-> "turn-" \o ToString(k), user_id |-> "u1", thread_id |-> thread_id,
     user_message |-> <<"q">> \o Decimal(k), bot_response |-> <<"a">> \o Decimal(k),
     timestamp |-> k]

\* one worker, any body, over a container that already holds MaxTurns flat
\* turn records, the first n of them of thread t1
InitMemory ==
    /\ pool = {"w1"}
    /\ bodies = AskBodies
    /\ index_results = <<RawHit(2, 1), RawHit(1, 2)>>
    /\ llm_text = Words(2)
    /\ \E n \in 0..MaxTurns :
          container = {FlatTurn(k, IF k <= n THEN "t1" ELSE "t2") : k \in 1..MaxTurns}
    /\ clock = MaxTurns + 1
    /\ budget = MaxRequests
    /\ WorkersIdle
    /\ IngestIdle

Next ==
    \/ \E r \in Workers : Embed(r)
    \/ \E r \in Workers : Search(r)
    \/ \E r \in Workers : FetchHistory(r)
    \/ \E r \in Workers : Complete(r)
    \/ \E r \in Workers : SaveRead(r)
    \/ \E r \in Workers : SaveUpsert(r)
    \/ GetChatHistory
    \/ History

Spec == Init /\ [][Next]_vars
SpecSolo == InitSolo /\ [][Next]_vars
SpecMemory == InitMemory /\ [][Next]_vars

----------------------------------------------------------------------------
(* Properties of POST /ask and of the history endpoints *)

\* the last /ask of worker r returned 200 after its upsert
Saved(r) == r \in pool /\ pc[r] = "done" /\ resp[r].status = 200 /\ wrote[r]

\* the per-user record holds the turn (request, response) in the thread
TurnStored(c, user_id, thread_id, request, response) ==
    \E d \in c :
        /\ d.id = user_id
        /\ HasField(d, "history")
        /\ JsonKey(thread_id) \in DOMAIN d.history
        /\ \E i \in 1..Len(d.history[JsonKey(thread_id)].chats) :
              d.history[JsonKey(thread_id)].chats[i]
                  = [req |-> request, res |-> response]

\* a history read returns the turn (request, response)
TurnListed(items, request, response) ==
    \E i \in 1..Len(items) :
        /\ GetOrNone(items[i], "user_message") = request
        /\ GetOrNone(items[i], "bot_response") = response

\* C1: when two /ask requests of the same user, each naming a thread, have
\* both returned from save_conversation, each after a read that found the
\* record or found none, the stored per-user record contains both turns.
C1_BothTurnsStored ==
    \A r1, r2 \in pool :
        ( /\ r1 # r2
          /\ Saved(r1) /\ Saved(r2)
          /\ req[r1].user_id # None
          /\ req[r1].user_id = req[r2].user_id
          /\ req[r1].thread_id # None /\ req[r2].thread_id # None
          /\ read_outcome[r1] # "failed" /\ read_outcome[r2] # "failed" )
        => /\ TurnStored(container, req[r1].user_id, req[r1].thread_id,
                         req[r1].user_input, resp[r1].response)
           /\ TurnStored(container, req[r2].user_id, req[r2].thread_id,
                         req[r2].user_input, resp[r2].response)

\* C2: once save_conversation has completed, the history read of the same user
\* and thread (get_conversation_history) and the history read of the same user
\* (get_history) both return the turn just saved.
C2_SavedTurnIsRead ==
    \A r \in pool :
        (Saved(r) /\ req[r].user_id # None)
        => /\ TurnListed(get_conversation_history(container, req[r].user_id,
                                                  req[r].thread_id),
                         req[r].user_input, resp[r].response)
           /\ \E i \in 1..Len(get_history(container, req[r].user_id)) :
                 get_history(container, req[r].user_id)[i]
                     = [req |-> req[r].user_input, res |-> resp[r].response]

\* C4: a POST /ask whose JSON body is an object that lacks user_id or question
\* is answered with 400 and enters neither embedding, search, completion nor
\* the store write.
C4_MissingFieldIs400 ==
    \A r \in pool :
        ( /\ pc[r] # "idle"
          /\ failed_at[r] # "request"
          /\ (req[r].user_id = None \/ req[r].user_input = NoneText) )
        => /\ pc[r] = "done"
           /\ resp[r].status = 400
           /\ failed_at[r] = "none"
           /\ ~completed[r]
           /\ ~wrote[r]

\* C5: a /ask request whose embedding, search, history read or completion step
\* failed has ended in an error response that carries no chat text and has not
\* written the store; a request writes the store only after it has obtained
\* the completion text; and a request that ended in an error response has not
\* written the store.
C5_AllOrNothing ==
    \A r \in pool :
        /\ failed_at[r] \in UpstreamSteps
              => /\ pc[r] = "done"
                 /\ resp[r].status = 500
                 /\ ~HasField(resp[r], "response")
                 /\ ~wrote[r]
        /\ wrote[r] => (completed[r] /\ llm_text # NoneText)
        /\ (pc[r] = "done" /\ resp[r].status # 200) => ~wrote[r]

\* C6: in a 200 response of /ask the images list is empty when the response
\* has at most 160 words, and otherwise has one entry per search hit, in hit
\* order, each the image_path of that hit.
C6_ImagesByWordCount ==
    \A r \in pool :
        (pc[r] = "done" /\ resp[r].status = 200)
        => LET n == WordCount(resp[r].response)
               images == resp[r].images
           IN  /\ n <= Threshold => images = <<>>
               /\ n > Threshold =>
                     /\ Len(images) = Len(index_results)
                     /\ \A i \in 1..Len(images) :
                           /\ images[i] = search_results[r][i].image_path
                           /\ images[i] = ImagePath(index_results[i].page_number)

\* a response of 161 words, spread over lines, was returned with the images of
\* three hits, page 3 first
C6_Witness ==
    \E r \in pool :
        /\ pc[r] = "done" /\ resp[r].status = 200
        /\ resp[r].response = Lines(Threshold + 1)
        /\ Len(resp[r].images) = KNearest
        /\ resp[r].images[1] = ImagePath(PageLabel(3))

\* C7: search_with_vector gives the i-th hit of the index the label [doc<i>]
\* and keeps the index's order, and the prompt lists the hits in that order,
\* each rendered "[doc<i>] page <page_number>: <page_content>".
C7_HitOrderKept ==
    \A r \in pool :
        completed[r]
        => LET sr == search_results[r]
               line(i) == <<"[","d","o","c">> \o Decimal(i)
                              \o <<"]"," ","p","a","g","e"," ">>
                              \o index_results[i].page_number \o <<":"," ">>
                              \o index_results[i].page_content
           IN  /\ Len(sr) = Len(index_results)
               /\ \A i \in 1..Len(sr) :
                     /\ sr[i].doc_ref = <<"[","d","o","c">> \o Decimal(i) \o <<"]">>
                     /\ sr[i].page_number = index_results[i].page_number
                     /\ sr[i].page_content = index_results[i].page_content
                     /\ sr[i].score = index_results[i].score
               /\ prompt[r][Len(prompt[r])].content =
                     Str(req[r].user_input)
                         \o <<"\n","\n","S","e","a","r","c","h"," ",
                              "r","e","s","u","l","t","s",":","\n">>
                         \o JoinLines([i \in 1..Len(index_results) |-> line(i)])

\* the index returned three hits, page 3 first and page 1 second
C7_Witness ==
    \E r \in pool :
        /\ completed[r]
        /\ Len(search_results[r]) = KNearest
        /\ search_results[r][1].page_number = PageLabel(3)
        /\ search_results[r][2].page_number = PageLabel(1)

\* the keys a thread can have in the stored history map
StoredThreads == {JsonKey(t) : t \in Threads \cup {None}}

\* the per-user record of user_id holds thread thread_id
ThreadStored(c, user_id, thread_id) ==
    \E d \in c : d.id = user_id /\ HasField(d, "history")
                    /\ thread_id \in DOMAIN d.history

Heading(c, user_id, thread_id) ==
    (CHOOSE d \in c : d.id = user_id).history[thread_id].heading

\* C8: once the stored per-user record holds a thread, every later state of
\* the record, reached by saves whose read_item succeeded, holds that thread
\* with the same heading.
C8_HeadingNeverChanges ==
    [][\A user_id \in Users, thread_id \in StoredThreads :
          ( /\ ThreadStored(container, user_id, thread_id)
            /\ \A r \in pool : read_outcome[r] # "failed" )
          => /\ ThreadStored(container', user_id, thread_id)
             /\ Heading(container', user_id, thread_id)
                    = Heading(container, user_id, thread_id)]_vars

\* every turn the record of user_id holds in c is held by it in d
KeepsTurns(c, d, user_id) ==
    \A thread_id \in StoredThreads :
        ThreadStored(c, user_id, thread_id)
        => \A i \in 1..Len(ReadItem(c, user_id).history[thread_id].chats) :
              TurnStored(d, user_id, thread_id,
                         ReadItem(c, user_id).history[thread_id].chats[i].req,
                         ReadItem(c, user_id).history[thread_id].chats[i].res)

\* C9: when read_item of an existing record failed for a reason other than
\* not-found, save_conversation ends with the request failed and the stored
\* record keeping every turn it had.
C9_ReadFailureFailsRequest ==
    [][\A r \in pool :
          ( /\ pc[r] = "read" /\ pc'[r] = "done"
            /\ read_outcome[r] = "failed"
            /\ req[r].user_id # None
            /\ ItemExists(container, req[r].user_id) )
          => /\ resp'[r].status = 500
             /\ KeepsTurns(container, container', req[r].user_id)]_vars

\* the memory message of the prompt, "" when there is none
MemoryOf(messages) == IF Len(messages) = 3 THEN messages[2].content ELSE <<>>

Reverse(s) == [i \in 1..Len(s) |-> s[Len(s) + 1 - i]]

\* C3: the memory transcript of the prompt holds the min(5, n) most recent
\* turns of the history (its first turns, the history being most-recent-first),
\* and no other turn.
C3_MemoryIsMostRecent ==
    \A r \in pool :
        completed[r]
        => LET h == conv_history[r]
               recent == SubSeq(h, 1, Min(MemoryTurns, Len(h)))
               render(turns) == JoinLines([i \in 1..Len(turns) |-> FormatTurn(turns[i])])
           IN  MemoryOf(prompt[r]) \in {render(recent), render(Reverse(recent))}

----------------------------------------------------------------------------
(* The ingestion script: process_pdf *)

\* the key of sorted(blocks, key=lambda b: (b[1], b[0])): b[1] is y0, b[0] is x0
Before(a, b) == a.y0 < b.y0 \/ (a.y0 = b.y0 /\ a.x0 < b.x0)

\* b put into a sorted sequence after every block that is not after it
InsertBlock(b, sorted) ==
    LET later == {i \in 1..Len(sorted) : Before(b, sorted[i])}
        at == IF later = {} THEN Len(sorted) + 1
              ELSE CHOOSE i \in later : \A j \in later : i <= j
    IN  SubSeq(sorted, 1, at - 1) \o <<b>> \o SubSeq(sorted, at, Len(sorted))

\* sorted(...), which is stable
RECURSIVE SortBlocks(_)
SortBlocks(blocks) ==
    IF Len(blocks) = 0 THEN <<>>
    ELSE InsertBlock(blocks[Len(blocks)],
                     SortBlocks(SubSeq(blocks, 1, Len(blocks) - 1)))

\* page_content += block[4] + "\n"
RECURSIVE ConcatBlocks(_)
ConcatBlocks(blocks) ==
    IF Len(blocks) = 0 THEN <<>>
    ELSE blocks[1].text \o <<"\n">> \o ConcatBlocks(Tail(blocks))

\* content_by_page, in insertion order: one entry per page, keyed Page_<n>
extract_text_and_images_from_pdf(document) ==
    [n \in 1..Len(document) |->
        [page |-> PageLabel(n), content |-> ConcatBlocks(SortBlocks(document[n]))]]

\* get_embeddings_vector(content), an opaque value of the text
Embedding(text) == [embedding_of |-> text]

\* two page layouts: blocks listed bottom-up, and two columns of one row
PageLayouts ==
    { <<[x0 |-> 1, y0 |-> 2, text |-> <<"l","o","w">>],
        [x0 |-> 1, y0 |-> 1, text |-> <<"t","o","p">>]>>,
      <<[x0 |-> 2, y0 |-> 1, text |-> <<"r","i","g","h","t">>],
        [x0 |-> 1, y0 |-> 1, text |-> <<"l","e","f","t">>],
        [x0 |-> 1, y0 |-> 1, text |-> <<"t","i","e">>]>> }

Pdfs == UNION {[1..n -> PageLayouts] : n \in 0..MaxPages}

\* an exception leaves process_pdf
Abort(cause) ==
    /\ ipc' = "aborted"
    /\ abort_cause' = cause

\* create_index_if_not_exists, then extract_text_and_images_from_pdf
EnsureIndexAndExtract ==
    /\ ipc = "start"
    /\ \E get \in {"ok", "raise"}, create \in {"ok", "raise"} :
          LET got == index_exists /\ get = "ok"
              created == ~got /\ ~index_exists /\ create = "ok"
          IN  /\ printed' = IF got THEN <<[kind |-> "index_exists"]>>
                            ELSE IF created
                            THEN <<[kind |-> "index_not_found"], [kind |-> "index_created"]>>
                            ELSE <<[kind |-> "index_not_found"]>>
              /\ index_exists' = (index_exists \/ created)
              /\ IF got \/ created
                 THEN /\ content_by_page' = extract_text_and_images_from_pdf(pdf)
                      /\ cursor' = 1
                      /\ ipc' = IF Len(pdf) = 0 THEN "finished" ELSE "uploading"
                      /\ UNCHANGED abort_cause
                 ELSE /\ Abort("create_index")
                      /\ UNCHANGED <<content_by_page, cursor>>
    /\ UNCHANGED <<pdf, index_docs, attempts>>
    /\ UNCHANGED askVars

\* one iteration of the for loop of process_pdf
UploadPage ==
    /\ ipc = "uploading"
    /\ LET page == content_by_page[cursor].page
           content == content_by_page[cursor].content
           document == [id |-> "uuid-" \o ToString(cursor), page_number |-> page,
                        page_content |-> content, vector |-> Embedding(content)]
       IN  \E embed \in {"ok", "raise"}, upload \in {"ok", "rejected", "raise"} :
              IF embed = "raise"
              THEN /\ Abort("embedding")
                   /\ UNCHANGED <<cursor, index_docs, printed, attempts>>
              ELSE /\ attempts' = Append(attempts, page)
                   /\ IF upload = "raise"
                      THEN /\ Abort("upload")
                           /\ UNCHANGED <<cursor, index_docs, printed>>
                      ELSE /\ index_docs' = IF upload = "ok"
                                            THEN index_docs \cup {document}
                                            ELSE index_docs
                           /\ printed' = Append(printed, [kind |-> "uploaded",
                                  page |-> page, succeeded |-> (upload = "ok")])
                           /\ cursor' = cursor + 1
                           /\ ipc' = IF cursor = Len(content_by_page)
                                     THEN "finished" ELSE "uploading"
                           /\ UNCHANGED abort_cause
    /\ UNCHANGED <<pdf, index_exists, content_by_page>>
    /\ UNCHANGED askVars

\* the script is started on a PDF, the index existing or not
InitIngest ==
    /\ pool = {}
    /\ bodies = {}
    /\ index_results = <<>>
    /\ llm_text = <<>>
    /\ container = {}
    /\ clock = 1
    /\ budget = 0
    /\ WorkersIdle
    /\ pdf \in Pdfs
    /\ ipc = "start"
    /\ index_exists \in BOOLEAN
    /\ content_by_page = <<>>
    /\ cursor = 0
    /\ index_docs = {}
    /\ printed = <<>>
    /\ attempts = <<>>
    /\ abort_cause = "none"

NextIngest == EnsureIndexAndExtract \/ UploadPage

SpecIngest == InitIngest /\ [][NextIngest]_vars

\* the number of entries of a sequence that satisfy a test
Count(seq, Test(_)) == Cardinality({i \in 1..Len(seq) : Test(seq[i])})

\* C10: when process_pdf has ended, by reaching the end of the loop or by an
\* upload that failed, every page of the PDF has had exactly one upload
\* attempt and exactly one reported outcome.
C10_EveryPageAttemptedAndReported ==
    (ipc \in {"finished", "aborted"} /\ abort_cause \in {"none", "upload"})
    => \A n \in 1..Len(pdf) :
          /\ Count(attempts, LAMBDA p : p = PageLabel(n)) = 1
          /\ Count(printed, LAMBDA l : l.kind = "uploaded" /\ l.page = PageLabel(n)) = 1

====
